---- MODULE Spec2Model ----
(***************************************************************************)
(* A model of the SMTP test sessions of shokuhou.  The repository holds    *)
(* three revisions of the command line program, each one async closure     *)
(* that drives one SMTP transaction over a promise-socket client:          *)
(*   part_000   connect, banner, greeting, quit                            *)
(*   shokuhou   connect, banner, greeting, mail transfer, data, quit       *)
(*   part_001   as shokuhou, plus AUTH LOGIN, verbose tracing, getStatus   *)
(* Every await of a closure is one step of the model: the step draws the   *)
(* outcome of the network operation (resolved, rejected, and for a read    *)
(* the bytes the server sent) and then runs the code up to the next await. *)
(***************************************************************************)
EXTENDS Naturals, Sequences, FiniteSets

\* Longest free text that follows the status code in a modelled reply.
MaxTail == 1

\* Longest -u and -s value of the argument parsing runs.
MaxAddr == 4

VARIABLES
  argv,      \* the -u and -s values of the command line (<<>>: not given)
  clientOpts, \* the sender and the domain derived from argv
  program,   \* which revision of the program runs
  password,  \* clientOpts.password is set (-p given)
  verbose,   \* -v given
  pc,        \* the await the closure is suspended at, or how it ended
  sent,      \* commands handed to client.write, in order
  rcvd,      \* the status fields of the replies read so far, in order
  resp,      \* what the last client.read resolved with (banner, helloResp, ...)
  log,       \* console events, in order
  teardown,  \* the release call the session made on the socket
  silent,    \* the server sent nothing for the whole inactivity window
  twin,      \* the finished run the present one is compared with, if any
  script     \* what the awaits of the first run settled with, in order

vars ==
  <<argv, clientOpts, program, password, verbose, pc, sent, rcvd, resp, log,
    teardown, silent, twin, script>>

Programs == {"part_000", "shokuhou", "part_001"}

----------------------------------------------------------------------------
\* Command line values: sequences of characters.

Chars == {"a", "@"}

Strings(n) == UNION {[1..k -> Chars] : k \in 1..n}

\* Every -u and -s pair up to MaxAddr characters; <<>> is an option not given.
AllArgv == [u : Strings(MaxAddr) \cup {<<>>}, s : Strings(MaxAddr) \cup {<<>>}]

\* The command lines the sessions are run with: a sender with a domain, a
\* sender without "@", and a -s that differs from the user.
SessionArgv ==
  {[u |-> <<"a", "@", "a">>, s |-> <<>>],
   [u |-> <<"a">>, s |-> <<>>],
   [u |-> <<"a">>, s |-> <<"a", "@", "a", "a">>]}

\* A value that is undefined in the program.
Undef == [defined |-> FALSE, text |-> <<>>]

Str(t) == [defined |-> TRUE, text |-> t]

\* String.prototype.split(sep): the pieces between the separators.
RECURSIVE split(_, _)
split(str, sep) ==
  IF \E i \in 1..Len(str) : str[i] = sep
    THEN LET i == CHOOSE k \in 1..Len(str) :
                    str[k] = sep /\ \A j \in 1..(k - 1) : str[j] # sep
         IN <<SubSeq(str, 1, i - 1)>> \o split(SubSeq(str, i + 1, Len(str)), sep)
    ELSE <<str>>

\* String.prototype.split(sep, limit): the first `limit` pieces; the rest of
\* the string is dropped.
splitLimit(str, sep, limit) ==
  LET all == split(str, sep) IN
  IF Len(all) <= limit THEN all ELSE SubSeq(all, 1, limit)

\* array[i], counted from 0: undefined past the end.
At(arr, i) == IF i + 1 <= Len(arr) THEN Str(arr[i + 1]) ELSE Undef

\* `${value}` in a template literal.
Interpolate(v) ==
  IF v.defined THEN v.text ELSE <<"u", "n", "d", "e", "f", "i", "n", "e", "d">>

\* clientOpts before the argument parsing.
NoOpts == [sender |-> <<>>, domain |-> Undef]

----------------------------------------------------------------------------
\* Replies: sequences of characters, as the bytes of one read.

C220 == <<"2", "2", "0">>
C235 == <<"2", "3", "5">>
C250 == <<"2", "5", "0">>
C251 == <<"2", "5", "1">>
C334 == <<"3", "3", "4">>
C354 == <<"3", "5", "4">>
C502 == <<"5", "0", "2">>
C550 == <<"5", "5", "0">>

Codes == {C220, C235, C250, C251, C334, C354, C502, C550}

\* n characters of text after the code; the text ends the line with a space
\* so that trimming is observable.
ReplyText(n) == [i \in 1..n |-> IF i = n THEN " " ELSE "x"]

\* What an awaited client.read() can give: a chunk (a status field, whole or
\* cut short, and the text after it), undefined at the end of the stream, or a
\* rejection (socket error, inactivity timeout).
ReadOutcomes ==
  [text : {ReplyText(n) : n \in 0..MaxTail}, kind : {"data"}, code : Codes]
    \cup [text : {<<>>}, kind : {"data"}, code : {<<>>, <<"2", "5">>}]
    \cup [text : {<<>>}, kind : {"end", "error"}, code : {<<>>}]

\* The bytes of a chunk.
Bytes(r) == r.code \o r.text

\* What the history keeps of a resolved read.
Field(r) == [kind |-> r.kind, code |-> r.code]

Undefined == [text |-> <<>>, kind |-> "end", code |-> <<>>]

\* client.setTimeout(...): once the socket has been idle for the window the
\* timeout handler destroys it with a TimeoutError, which rejects the read.
TimeoutError == [text |-> <<>>, kind |-> "timeout", code |-> <<>>]

\* No timeout set: a read on an idle socket never settles.
Outcomes_NoTimeout == IF silent THEN {} ELSE ReadOutcomes

\* How the read pending now can settle.
Outcomes == IF silent THEN {TimeoutError} ELSE ReadOutcomes

Min(a, b) == IF a < b THEN a ELSE b

\* resp.toString().substring(0,3)
substring03(s) == SubSeq(s, 1, Min(3, Len(s)))

NoCode == <<"?">>

\* The leading characters whatever their number, as substring(0,3) gives.
getStatus_Raw(buf) == substring03(buf)

\* modules/getStatus.js: the three leading characters, or no code.
getStatus(buf) == IF Len(buf) < 3 THEN NoCode ELSE SubSeq(buf, 1, 3)

\* The status a revision compares against the expected codes.
Status(buf) ==
  IF program = "part_001" THEN getStatus(buf) ELSE substring03(buf)

RECURSIVE TrimEnd(_)
TrimEnd(s) ==
  IF s # <<>> /\ s[Len(s)] = " " THEN TrimEnd(SubSeq(s, 1, Len(s) - 1)) ELSE s

RECURSIVE TrimStart(_)
TrimStart(s) ==
  IF s # <<>> /\ s[1] = " " THEN TrimStart(SubSeq(s, 2, Len(s))) ELSE s

\* String.prototype.trim, over the modelled alphabet.
Trim(s) == TrimEnd(TrimStart(s))

\* The reply text a revision puts in "Improper response: ...".
Detail(buf) == IF program = "part_001" THEN Trim(buf) ELSE buf

----------------------------------------------------------------------------
\* Accepted codes of each stage.

BannerAccepted == {C220}
EhloFallback == {C502}
GreetAccepted == {C250}
AuthAccepted == {C334}
\* The reply to the username passed on whatever its code.
UserAccepted_Unchecked == Codes

UserAccepted == {C334}
PassAccepted == {C235}
\* MAIL FROM checked against the codes RCPT TO accepts.
MailAccepted_With251 == {C250, C251}

MailAccepted == {C250}
\* RCPT TO checked like MAIL FROM.
RcptAccepted_Only250 == {C250}

RcptAccepted == {C250, C251}
DataAccepted == {C354}
\* The reply to the body left unchecked.
BodyAccepted_Unchecked == Codes

BodyAccepted == {C250}

\* The lines of the test message written after DATA, each ended by CRLF.
BodyLines == <<"From", "To", "Subject", "", "text", ".">>

\* The line of the trace, mark included, written to the server in verbose
\* mode.
Line_Traced(c) ==
  [cmd |-> c, arg |-> <<>>, lines |-> IF verbose THEN <<"[<]", c>> ELSE <<c>>]

\* What one client.write call puts on the wire: the command, the value
\* interpolated into it, and its lines.
Line(c) ==
  [cmd |-> c,
   arg |-> CASE c \in {"EHLO", "HELO"} -> Interpolate(clientOpts.domain)
             [] c = "MAIL FROM" -> clientOpts.sender
             [] OTHER -> <<>>,
   lines |-> IF c = "BODY" THEN BodyLines ELSE <<c>>]

----------------------------------------------------------------------------
\* Console events.

Event(k, m, c, d) == [kind |-> k, cmd |-> c, msg |-> m, detail |-> d]

Info(m) == <<Event("info", m, "", <<>>)>>

\* Every revision printing the progress lines of the last one.
Announce_Always(m) == Info(m)

\* Progress lines only the last revision prints.
Announce(m) == IF program = "part_001" THEN Info(m) ELSE <<>>

\* The trace line of a write printed whatever -v says.
DebugSent_Unconditional(c) == <<Event("debug", "sent", c, <<>>)>>

DebugSent(c) ==
  IF program = "part_001" /\ verbose
    THEN <<Event("debug", "sent", c, <<>>)>> ELSE <<>>

DebugRecv(buf) ==
  IF program = "part_001" /\ verbose
    THEN <<Event("debug", "received", "", Trim(buf))>> ELSE <<>>

\* ex.message of a rejected read.
Cause(r) == IF r.kind = "timeout" THEN "TimeoutError" ELSE "transport"

\* A catch block that reports and goes on to take leave with QUIT.
Catch_ThenQuit(stage, lg, cause, d) ==
  /\ log' = Append(lg, Event("fatal", stage, cause, d))
  /\ teardown' = teardown
  /\ pc' = "quit_w"

\* The catch block of a stage: console.error, client.destroy(), process.exit(0).
Catch(stage, lg, cause, d) ==
  /\ log' = Append(lg, Event("fatal", stage, cause, d))
  /\ teardown' = "destroy"
  /\ pc' = "exited"

\* No second run: nothing is parked and nothing is handed over.
NoTwin ==
  [clientOpts |-> NoOpts, pc |-> "args", sent |-> <<>>, rcvd |-> <<>>,
   resp |-> Undefined, log |-> <<>>, teardown |-> "none", silent |-> FALSE,
   mode |-> "off"]

\* Two runs of one command line that differ in -v: the one that is parked
\* while the other runs. In mode "lead" the run in the variables meets the
\* server first, in mode "follow" the other run is given what it met.
Parked == [NoTwin EXCEPT !.mode = "lead"]

\* What an awaited connect, write or end settled with.
Settled(ok) ==
  [text |-> <<>>, kind |-> IF ok THEN "ok" ELSE "fault", code |-> <<>>]

\* The inactivity window passing without a byte from the server.
Hush == [text |-> <<>>, kind |-> "silence", code |-> <<>>]

\* An await settling with `inp`: the leading run hands it over, the
\* following run settles with what was handed over, so that both runs see
\* the same server and the same faults.
Scripted(inp) ==
  /\ CASE twin.mode = "lead" -> script = <<>> /\ script' = <<inp>>
       [] twin.mode = "follow" -> script = <<inp>> /\ script' = <<>>
       [] OTHER -> script' = script
  /\ twin' = twin

InitWith(args) ==
  /\ argv \in args
  /\ clientOpts = NoOpts
  /\ program \in Programs
  /\ password \in BOOLEAN
  \* only the last revision reads -v
  /\ verbose \in (IF program = "part_001" THEN BOOLEAN ELSE {FALSE})
  /\ pc = "args"
  /\ sent = <<>>
  /\ rcvd = <<>>
  /\ resp = Undefined
  /\ log = <<>>
  /\ teardown = "none"
  /\ silent = FALSE

Init == InitWith(SessionArgv) /\ twin = NoTwin /\ script = <<>>

\* The try block that resolves the command line: without -u it throws and
\* the catch prints the help and exits; otherwise the sender is -s, or -u
\* when -s is missing or empty, and the domain is the second piece of the
\* sender split at "@".
ParseArgs ==
  /\ pc = "args"
  /\ IF argv.u = <<>>
       THEN /\ pc' = "help"
            /\ clientOpts' = clientOpts
       ELSE LET sender == IF argv.s # <<>> THEN argv.s ELSE argv.u IN
            /\ clientOpts' =
                 [sender |-> sender, domain |-> At(splitLimit(sender, "@", 2), 1)]
            /\ pc' = "connect"
  /\ UNCHANGED <<argv, program, password, verbose, sent, rcvd, resp, log, teardown, silent, twin, script>>

\* await client.connect(...): the catch reports and exits, without destroy.
Connect ==
  /\ pc = "connect"
  /\ \E ok \in BOOLEAN :
       Scripted(Settled(ok)) /\
       IF ok
         THEN /\ log' = log \o Info("Connected")
              /\ pc' = "banner"
         ELSE /\ log' = Append(log, Event("fatal", "connect", "transport", <<>>))
              /\ pc' = "exited"
  /\ UNCHANGED <<argv, clientOpts, program, password, verbose, sent, rcvd, resp, teardown, silent, twin>>

\* await client.write(cmd) inside the try block of `stage`.
Write(at, cmd, stage, pre, next) ==
  /\ pc = at
  /\ sent' = Append(sent, Line(cmd))
  /\ \E ok \in BOOLEAN :
       LET lg == log \o pre \o DebugSent(cmd) IN
       Scripted(Settled(ok)) /\
       IF ok
         THEN /\ log' = lg
              /\ pc' = next
              /\ teardown' = teardown
         ELSE Catch(stage, lg, "transport", <<>>)
  /\ UNCHANGED <<argv, clientOpts, program, password, verbose, rcvd, resp, silent, twin>>

\* await client.read() and the check of the reply against `accepted`.
Read(at, stage, accepted, next, post) ==
  /\ pc = at
  /\ \E r \in Outcomes :
       Scripted(r) /\
       CASE r.kind \in {"error", "timeout"} ->
              /\ rcvd' = rcvd
              /\ resp' = resp
              /\ Catch(stage, log, Cause(r), <<>>)
         [] r.kind = "end" ->
              \* undefined.toString() throws inside the try block
              /\ rcvd' = Append(rcvd, Field(r))
              /\ resp' = r
              /\ Catch(stage, log, "TypeError", <<>>)
         [] OTHER ->
              /\ rcvd' = Append(rcvd, Field(r))
              /\ resp' = r
              /\ LET lg == log \o DebugRecv(Bytes(r)) IN
                 IF Status(Bytes(r)) \in accepted
                   THEN /\ log' = lg \o post
                        /\ pc' = next
                        /\ teardown' = teardown
                   ELSE Catch(stage, lg, "reply", Detail(Bytes(r)))
  /\ UNCHANGED <<argv, clientOpts, program, password, verbose, sent, silent, twin>>

ReadBanner ==
  Read("banner", "banner", BannerAccepted, "ehlo_w", Info("Received banner"))

\* Where the closure goes after a successful greeting.
AfterGreeting ==
  CASE program = "part_000" -> "quit_w"
    [] program = "shokuhou" -> "mail_w"
    [] OTHER -> IF password THEN "auth_w" ELSE "mail_w"

WriteEhlo ==
  Write("ehlo_w", "EHLO", "greeting", Announce("Attempting to greet"), "ehlo_r")

\* The reply to the greeting command awaited at `at`: 502 opens the HELO
\* branch, otherwise 250 is expected.
GreetingReply(at) ==
  /\ pc = at
  /\ \E r \in Outcomes :
       Scripted(r) /\
       CASE r.kind \in {"error", "timeout"} ->
              /\ rcvd' = rcvd
              /\ resp' = resp
              /\ Catch("greeting", log, Cause(r), <<>>)
         [] r.kind = "end" ->
              /\ rcvd' = Append(rcvd, Field(r))
              /\ resp' = r
              /\ Catch("greeting", log, "TypeError", <<>>)
         [] OTHER ->
              /\ rcvd' = Append(rcvd, Field(r))
              /\ resp' = r
              /\ LET lg == log \o DebugRecv(Bytes(r)) IN
                 IF Status(Bytes(r)) \in EhloFallback
                   THEN /\ log' = Append(lg, Event("warn", "EHLO not supported", "", <<>>))
                        /\ pc' = "helo_w"
                        /\ teardown' = teardown
                   ELSE IF Status(Bytes(r)) \in GreetAccepted
                     THEN /\ log' = lg \o Info("Successfully greeted")
                          /\ pc' = AfterGreeting
                          /\ teardown' = teardown
                     ELSE Catch("greeting", lg, "reply", Detail(Bytes(r)))
  /\ UNCHANGED <<argv, clientOpts, program, password, verbose, sent, silent, twin>>

ReadEhlo == GreetingReply("ehlo_r")

WriteHelo == Write("helo_w", "HELO", "greeting", <<>>, "helo_r")

\* The reply to HELO run through the EHLO check again.
ReadHelo_FallbackAgain == GreetingReply("helo_r")

ReadHelo ==
  Read("helo_r", "greeting", GreetAccepted, AfterGreeting,
       Info("Successfully greeted"))

WriteAuth ==
  Write("auth_w", "AUTH LOGIN", "authentication",
        Info("Attempting authentication"), "auth_r")

ReadAuth == Read("auth_r", "authentication", AuthAccepted, "user_w", <<>>)

WriteUser == Write("user_w", "btoa(user)", "authentication", <<>>, "user_r")

ReadUser == Read("user_r", "authentication", UserAccepted, "pass_w", <<>>)

WritePass == Write("pass_w", "btoa(password)", "authentication", <<>>, "pass_r")

ReadPass ==
  Read("pass_r", "authentication", PassAccepted, "mail_w",
       Info("Authentication successful"))

WriteMail ==
  Write("mail_w", "MAIL FROM", "initiation",
        Announce("Initiating mail transfer"), "mail_r")

\* MAIL FROM and RCPT TO written back to back.
ReadMail_NoRead ==
  /\ pc = "mail_r"
  /\ pc' = "rcpt_w"
  /\ UNCHANGED <<argv, clientOpts, program, password, verbose, sent, rcvd, resp, log, teardown, silent, twin, script>>

ReadMail == Read("mail_r", "initiation", MailAccepted, "rcpt_w", <<>>)

WriteRcpt == Write("rcpt_w", "RCPT TO", "initiation", <<>>, "rcpt_r")

ReadRcpt ==
  Read("rcpt_r", "initiation", RcptAccepted, "data_w",
       Info("Mail transfer initiated"))

WriteData ==
  Write("data_w", "DATA", "message",
        Announce("Attempting to send message"), "data_r")

ReadData == Read("data_r", "message", DataAccepted, "body_w", <<>>)

WriteBody == Write("body_w", "BODY", "message", <<>>, "body_r")

ReadBody ==
  Read("body_r", "message", BodyAccepted, "quit_w", Info("Message accepted"))

\* The closure's promise rejects outside every try block: the process-wide
\* unhandledRejection handler prints it, and nothing else runs.
Unhandled(lg) ==
  /\ log' = Append(lg, Event("unhandled", "Unhandled rejection", "", <<>>))
  /\ pc' = "rejected"

\* await client.write("QUIT\r\n"), after the last try block.
WriteQuit ==
  /\ pc = "quit_w"
  /\ sent' = Append(sent, Line("QUIT"))
  /\ \E ok \in BOOLEAN :
       LET lg == log \o Info("Closing connection") \o DebugSent("QUIT") IN
       Scripted(Settled(ok)) /\
       IF ok
         THEN /\ log' = lg
              /\ pc' = "end"
         ELSE Unhandled(lg)
  /\ UNCHANGED <<argv, clientOpts, program, password, verbose, rcvd, resp, teardown, silent, twin>>

\* await client.end(), the closure's last statement.
End ==
  /\ pc = "end"
  /\ \E ok \in BOOLEAN :
       Scripted(Settled(ok)) /\
       IF ok
         THEN /\ teardown' = "end"
              /\ pc' = "done"
              /\ log' = log
         ELSE /\ teardown' = "end_failed"
              /\ Unhandled(log)
  /\ UNCHANGED <<argv, clientOpts, program, password, verbose, sent, rcvd, resp, silent, twin>>

\* The awaits of client.read().
ReadPcs ==
  {"banner", "ehlo_r", "helo_r", "auth_r", "user_r", "pass_r", "mail_r",
   "rcpt_r", "data_r", "body_r"}

\* The server sends nothing while a read is pending, for the whole window.
Silence ==
  /\ pc \in ReadPcs
  /\ ~silent
  /\ silent' = TRUE
  /\ Scripted(Hush)
  /\ UNCHANGED <<argv, clientOpts, program, password, verbose, pc, sent, rcvd, resp, log, teardown, twin>>

Next ==
  \/ ParseArgs
  \/ Silence
  \/ Connect \/ ReadBanner
  \/ WriteEhlo \/ ReadEhlo \/ WriteHelo \/ ReadHelo
  \/ WriteAuth \/ ReadAuth \/ WriteUser \/ ReadUser \/ WritePass \/ ReadPass
  \/ WriteMail \/ ReadMail \/ WriteRcpt \/ ReadRcpt
  \/ WriteData \/ ReadData \/ WriteBody \/ ReadBody
  \/ WriteQuit \/ End

Spec == Init /\ [][Next]_vars

\* Every awaited network operation settles: the event loop resumes the
\* closure when a connect, write, read or end resolves or rejects, and a
\* silent socket ends its window.
FairSpec == Spec /\ WF_vars(Next)

\* The argument parsing alone, over every command line up to MaxAddr.
ArgsSpec ==
  InitWith(AllArgv) /\ twin = NoTwin /\ script = <<>> /\ [][ParseArgs]_vars

\* The run in the variables is parked and the parked one resumed: the
\* leading run once it has met something, the following run once it has
\* settled with the same.
Switch ==
  /\ \/ twin.mode = "lead" /\ script # <<>>
     \/ twin.mode = "follow" /\ script = <<>>
  /\ twin' =
       [clientOpts |-> clientOpts, pc |-> pc, sent |-> sent, rcvd |-> rcvd,
        resp |-> resp, log |-> log, teardown |-> teardown, silent |-> silent,
        mode |-> IF twin.mode = "lead" THEN "follow" ELSE "lead"]
  /\ clientOpts' = twin.clientOpts
  /\ pc' = twin.pc
  /\ sent' = twin.sent
  /\ rcvd' = twin.rcvd
  /\ resp' = twin.resp
  /\ log' = twin.log
  /\ teardown' = twin.teardown
  /\ silent' = twin.silent
  /\ verbose' = ~verbose
  /\ UNCHANGED <<argv, program, password, script>>

\* The last revision started twice on one command line, once with -v and
\* once without.
TwinInit ==
  InitWith(SessionArgv) /\ program = "part_001" /\ twin = Parked /\ script = <<>>

TwinNext == Next \/ Switch

\* The two runs side by side against one server.
TwinSpec == TwinInit /\ [][TwinNext]_vars

----------------------------------------------------------------------------
\* Vocabulary of the properties.

SentCmds == [i \in 1..Len(sent) |-> sent[i].cmd]

Pos(c) == {i \in 1..Len(sent) : sent[i].cmd = c}

WasSent(c) == Pos(c) # {}

\* The i-th command has been answered: the banner is the first read, so the
\* reply to the i-th command is the (i+1)-th.
Answered(i) == Len(rcvd) >= i + 1

CodeOf(i) == rcvd[i + 1].code

Logged(k, m) == \E j \in 1..Len(log) : log[j].kind = k /\ log[j].msg = m

Terminated == pc \in {"exited", "done", "rejected"}

\* The run ended in the catch block of `stage`.
FailedAt(stage) ==
  /\ pc = "exited"
  /\ log # <<>>
  /\ log[Len(log)].kind = "fatal"
  /\ log[Len(log)].msg = stage

IsPrefix(s, t) == Len(s) <= Len(t) /\ \A i \in 1..Len(s) : s[i] = t[i]

\* The transaction plan, with and without its optional commands.
Plans ==
  {g \o a \o <<"MAIL FROM", "RCPT TO", "DATA", "BODY", "QUIT">> :
     g \in {<<"EHLO">>, <<"EHLO", "HELO">>},
     a \in {<<>>, <<"AUTH LOGIN", "btoa(user)", "btoa(password)">>}}

----------------------------------------------------------------------------
\* C1: in every run the commands written form a prefix of the plan EHLO,
\* [HELO], [AUTH LOGIN, user, password], MAIL FROM, RCPT TO, DATA, body, QUIT:
\* none out of order, none twice, no return to an earlier stage.
C1_PrefixOfPlan == \E t \in Plans : IsPrefix(SentCmds, t)

\* C2: exchanges are strictly request/reply: when a command is written, the
\* banner and exactly one reply to each earlier command have been read, so no
\* two commands are outstanding without a read between them.
C2_RequestReply == Len(sent) <= Len(rcvd) /\ Len(rcvd) <= Len(sent) + 1

\* A run that wrote the whole transaction, each command after a reply.
C2_Witness == WasSent("BODY") /\ WasSent("QUIT") /\ Len(rcvd) = Len(sent)

\* C3: the EHLO to HELO fallback fires at most once: HELO is sent exactly
\* when EHLO was answered 502, its reply is accepted on 250 only, a second
\* 502 (or any other code) fails the greeting with nothing more written, and
\* 250 to HELO is a successful greeting.
C3_FallbackOnce ==
  /\ Cardinality(Pos("HELO")) <= 1
  /\ Pos("HELO") \subseteq {2}
  /\ WasSent("HELO") => CodeOf(1) = C502
  /\ (Answered(1) /\ CodeOf(1) = C502) => (pc = "helo_w" \/ WasSent("HELO"))
  /\ (WasSent("HELO") /\ Answered(2) /\ CodeOf(2) # C250) =>
       (FailedAt("greeting") /\ Len(sent) = 2)
  /\ (WasSent("HELO") /\ Answered(2) /\ CodeOf(2) = C250) =>
       (Logged("info", "Successfully greeted") /\ ~FailedAt("greeting"))

\* 502 to EHLO and 502 to HELO: failed at the greeting after one HELO.
C3_Witness ==
  /\ WasSent("HELO") /\ Answered(2)
  /\ CodeOf(1) = C502 /\ CodeOf(2) = C502
  /\ FailedAt("greeting")

\* C4: after RCPT TO the session goes on to DATA if and only if the reply
\* code is 250 or 251; any other code, or no reply, fails the run at that
\* stage and DATA is never sent.
C4_RcptAccepts ==
  \A i \in Pos("RCPT TO") :
    /\ (Answered(i) /\ CodeOf(i) \in {C250, C251}) =>
         /\ Logged("info", "Mail transfer initiated")
         /\ pc = "data_w" \/ (Len(sent) > i /\ sent[i + 1].cmd = "DATA")
    /\ (Answered(i) /\ CodeOf(i) \notin {C250, C251}) =>
         (FailedAt("initiation") /\ Len(sent) = i)
    /\ ~Answered(i) =>
         (Len(sent) = i /\ (pc = "rcpt_r" \/ FailedAt("initiation")))
    /\ WasSent("DATA") => (Answered(i) /\ CodeOf(i) \in {C250, C251})

\* RCPT TO answered 251 and DATA written.
C4_Witness ==
  \E i \in Pos("RCPT TO") :
    Answered(i) /\ CodeOf(i) = C251 /\ WasSent("DATA")

\* C5: without a password AUTH LOGIN and the credential lines are never
\* sent, and the command that follows a successful greeting is MAIL FROM.
C5_NoPasswordNoAuth ==
  ~password =>
    /\ ~WasSent("AUTH LOGIN") /\ ~WasSent("btoa(user)")
    /\ ~WasSent("btoa(password)")
    /\ \A i \in 1..Len(sent) :
         (sent[i].cmd \notin {"EHLO", "HELO"}
            /\ (i = 1 \/ sent[i - 1].cmd \in {"EHLO", "HELO"}))
           => sent[i].cmd = "MAIL FROM"

\* C6: with a password, MAIL FROM is written only after AUTH LOGIN was
\* written and the authentication succeeded (the part of the claim that a
\* run reaching MAIL FROM decides).
C6_PasswordTriggersAuth ==
  (password /\ WasSent("MAIL FROM")) =>
    /\ \E i \in Pos("AUTH LOGIN") : \A j \in Pos("MAIL FROM") : i < j
    /\ Logged("info", "Authentication successful")

\* C7: the body is written only after DATA was answered 354 and ends with a
\* line holding a lone "."; its stage succeeds on 250 only, and on any other
\* code the run fails at that stage, QUIT is never sent and the socket is
\* destroyed.
C7_BodyAfter354 ==
  \A i \in Pos("BODY") :
    /\ i >= 2 /\ sent[i - 1].cmd = "DATA" /\ CodeOf(i - 1) = C354
    /\ sent[i].lines[Len(sent[i].lines)] = "."
    /\ \A k \in 1..(Len(sent[i].lines) - 1) : sent[i].lines[k] # "."
    /\ (Answered(i) /\ CodeOf(i) = C250) =>
         (Logged("info", "Message accepted") /\ ~FailedAt("message"))
    /\ (Answered(i) /\ CodeOf(i) # C250) =>
         /\ FailedAt("message")
         /\ ~WasSent("QUIT")
         /\ teardown = "destroy"

\* The body answered 550: failed, torn down, no QUIT.
C7_Witness ==
  \E i \in Pos("BODY") :
    Answered(i) /\ CodeOf(i) = C550 /\ FailedAt("message")

\* C8: QUIT is written, and the run completes, only after the body was
\* accepted with 250, hence after every earlier stage was accepted.
C8_QuitOnlyAfterAccepted ==
  (WasSent("QUIT") \/ pc = "done") =>
    /\ \E i \in Pos("BODY") : Answered(i) /\ CodeOf(i) = C250
    /\ Logged("info", "Received banner")
    /\ Logged("info", "Successfully greeted")
    /\ Logged("info", "Mail transfer initiated")
    /\ Logged("info", "Message accepted")

\* C9: whenever the run has terminated the session has closed or destroyed
\* the socket.
C9_AlwaysReleased == Terminated => teardown \in {"destroy", "end"}

\* C10: no error escapes as an unhandled rejection: every run that ends on
\* an error ends in a catch block, with a fatal report naming the stage as
\* its last event, and every such run past the connect has destroyed the
\* socket.
C10_EveryErrorHandled ==
  /\ pc # "rejected"
  /\ \A j \in 1..Len(log) : log[j].kind # "unhandled"
  /\ pc = "exited" =>
       /\ log[Len(log)].kind = "fatal"
       /\ log[Len(log)].msg # "connect" => teardown = "destroy"

\* C11: if the server accepts the connection and then sends no banner, the
\* inactivity timeout fires and the run fails at the banner stage with a
\* TimeoutError: the session neither waits forever nor writes a command.
C11_BannerTimeout ==
  /\ (pc = "banner") ~> (pc # "banner")
  /\ (pc = "banner" /\ silent) ~>
       (FailedAt("banner") /\ log[Len(log)].cmd = "TimeoutError" /\ sent = <<>>)

\* A run that failed at the banner on the timeout.
C11_Witness ==
  FailedAt("banner") /\ silent /\ log[Len(log)].cmd = "TimeoutError"

Fatals == {j \in 1..Len(log) : log[j].kind = "fatal"}

\* C13: a terminal outcome is produced exactly once: a terminated run has
\* either completed with no fatal report, or made exactly one fatal report,
\* as its last event; a fatal report is never followed by a write or by
\* another event.
C13_OneOutcome ==
  /\ Cardinality(Fatals) <= 1
  /\ Fatals # {} => (pc = "exited" /\ Fatals = {Len(log)})
  /\ Terminated =>
       \/ pc = "done" /\ Fatals = {}
       \/ pc = "exited" /\ Cardinality(Fatals) = 1

\* The text of the sender after its first "@".
AfterFirstAt(str) ==
  LET i == CHOOSE k \in 1..Len(str) :
             str[k] = "@" /\ \A j \in 1..(k - 1) : str[j] # "@"
  IN SubSeq(str, i + 1, Len(str))

HasAt(str) == \E i \in 1..Len(str) : str[i] = "@"

\* C14: for every sender that holds an "@", the sender being -s when given
\* and otherwise -u, the domain is all of the sender after its first "@",
\* further "@" included.
C14_DomainAfterFirstAt ==
  (pc = "connect" /\ HasAt(clientOpts.sender)) =>
    /\ clientOpts.sender = (IF argv.s # <<>> THEN argv.s ELSE argv.u)
    /\ clientOpts.domain = Str(AfterFirstAt(clientOpts.sender))

\* C15: a sender without "@" is refused before any network activity: the
\* session never connects and never writes a greeting that carries an
\* undefined or empty domain.
C15_NoAtRefused ==
  /\ (pc \notin {"args", "help"} /\ ~HasAt(clientOpts.sender)) => pc = "refused"
  /\ \A i \in Pos("EHLO") \cup Pos("HELO") :
       sent[i].arg \notin {<<>>, Interpolate(Undef)}

IsInfo(ev) == ev.kind = "info"

\* The messages of the info lines printed so far, in order.
InfoLog ==
  LET lines == SelectSeq(log, IsInfo) IN [i \in 1..Len(lines) |-> lines[i].msg]

RcvdCodes == [i \in 1..Len(rcvd) |-> rcvd[i].code]

\* The replies of the scripted happy path: banner, EHLO, MAIL FROM, RCPT TO,
\* DATA, message body.
HappyReplies == <<C220, C250, C250, C250, C354, C250>>

HappyPath == ~password /\ RcvdCodes = HappyReplies

NoFatalNoWarn == \A j \in 1..Len(log) : log[j].kind \notin {"fatal", "warn"}

\* The stages a run goes through without a password.
Stages ==
  {"Connect", "Banner", "Greeting", "Mail-From", "Recipient-To", "Data-start",
   "Data-body", "Quit"}

InfoLines_Short ==
  <<"Connected", "Received banner", "Successfully greeted",
    "Mail transfer initiated", "Message accepted", "Closing connection">>

InfoLines_Full ==
  <<"Connected", "Received banner", "Attempting to greet",
    "Successfully greeted", "Initiating mail transfer",
    "Mail transfer initiated", "Attempting to send message",
    "Message accepted", "Closing connection">>

\* C16 as stated: on the happy path without a password the run completes
\* with exactly one info line per stage (eight), no fatal and no warning.
C16_OneInfoPerStage ==
  (HappyPath /\ pc = "done") => (Len(InfoLog) = Cardinality(Stages) /\ NoFatalNoWarn)

\* C16 amended: on the happy path without a password no fatal and no warning
\* is printed and the run goes on to QUIT and the end; once completed, the
\* info lines are the six of shokuhou.js (none for MAIL FROM alone, none for
\* DATA) or the nine of the last revision (two for the greeting).
C16_HappyPathEvents ==
  /\ HappyPath => (NoFatalNoWarn /\ pc \in {"quit_w", "end", "done", "rejected"})
  /\ (HappyPath /\ pc = "done") =>
       InfoLog = (IF program = "part_001" THEN InfoLines_Full ELSE InfoLines_Short)

C16_Witness ==
  HappyPath /\ pc = "done" /\ program = "part_001" /\ InfoLog = InfoLines_Full

LastLog == log[Len(log)]

\* The run ended because a reply was not an accepted one.
Rejected ==
  pc = "exited" /\ log # <<>> /\ LastLog.kind = "fatal" /\ LastLog.cmd = "reply"

\* The stage whose reply was read last.
LastCmd == IF sent = <<>> THEN "banner" ELSE sent[Len(sent)].cmd

\* A name for each stage, the one the error line of its try block carries
\* wherever that names a single stage.
StageName(c) ==
  CASE c = "banner" -> "banner"
    [] c \in {"EHLO", "HELO"} -> "greeting"
    [] c \in {"AUTH LOGIN", "btoa(user)", "btoa(password)"} -> "authentication"
    [] c = "MAIL FROM" -> "initiation"
    [] c = "RCPT TO" -> "recipient"
    [] c = "DATA" -> "message"
    [] c = "BODY" -> "body"
    [] OTHER -> "quit"

\* C17: the fatal line of a rejection names the stage whose reply was
\* rejected, a different name for MAIL FROM than for RCPT TO and for DATA than
\* for the message body, and carries the text of the rejecting reply.
C17_FatalNamesStage ==
  Rejected =>
    /\ LastLog.msg = StageName(LastCmd)
    /\ Trim(LastLog.detail) = Trim(Bytes(resp))

\* The try block a command is written and answered in.
TryBlock(c) ==
  CASE c = "banner" -> "banner"
    [] c \in {"EHLO", "HELO"} -> "greeting"
    [] c \in {"AUTH LOGIN", "btoa(user)", "btoa(password)"} -> "authentication"
    [] c \in {"MAIL FROM", "RCPT TO"} -> "initiation"
    [] OTHER -> "message"

\* A read has settled with a chunk or with the end of the stream.
ReplyRead == rcvd # <<>> /\ Len(rcvd) = Len(sent) + 1

IsDebug(ev) == ev.kind = "debug"

IsSentTag(ev) == ev.kind = "debug" /\ ev.msg = "sent"

IsReceivedTag(ev) == ev.kind = "debug" /\ ev.msg = "received"

IsData(f) == f.kind = "data"

\* C19: a debug line is printed only in verbose mode; each one is tagged sent
\* or received; the sent ones carry, in order, commands that were written and
\* nothing read, the received ones carry, in order, the text of chunks that
\* were read and no command.
C19_DebugOnlyVerbose ==
  LET debugs == SelectSeq(log, IsDebug)
      outs == SelectSeq(log, IsSentTag)
      ins == SelectSeq(log, IsReceivedTag)
      chunks == SelectSeq(rcvd, IsData)
  IN /\ ~verbose => debugs = <<>>
     /\ Len(outs) + Len(ins) = Len(debugs)
     /\ Len(outs) <= Len(sent)
     /\ \A i \in 1..Len(outs) : outs[i].cmd = sent[i].cmd /\ outs[i].detail = <<>>
     /\ Len(ins) <= Len(chunks)
     /\ \A i \in 1..Len(ins) :
          ins[i].cmd = "" /\ IsPrefix(chunks[i].code, ins[i].detail)

C19_Witness ==
  /\ verbose /\ pc = "done" /\ WasSent("BODY")
  /\ Len(SelectSeq(log, IsSentTag)) = Len(sent)
  /\ Len(SelectSeq(log, IsReceivedTag)) = Len(rcvd)

\* A rejection or a transport failure has been reported.
Failure == \E j \in 1..Len(log) : log[j].kind \in {"fatal", "unhandled"}

\* C20: once a rejection or a transport failure has happened nothing more is
\* written or read; a rejected banner leaves no command sent, and a failed
\* connect leaves nothing written and nothing read.
C20_NothingAfterFailure ==
  /\ [][Failure => (sent' = sent /\ rcvd' = rcvd)]_vars
  /\ [](Failure => Terminated)
  /\ [](FailedAt("banner") => sent = <<>>)
  /\ [](FailedAt("connect") => (sent = <<>> /\ rcvd = <<>>))

C20_Witness ==
  /\ FailedAt("banner") /\ LastLog.cmd = "reply" /\ resp.code = C550
  /\ sent = <<>>

AuthCmds == <<"AUTH LOGIN", "btoa(user)", "btoa(password)">>

\* The code each step of the login exchange must be answered with.
AuthExpected == <<C334, C334, C235>>

\* C21: the login exchange is AUTH LOGIN, the encoded user, the encoded
\* password, each written once as a line of its own; the user follows AUTH
\* LOGIN answered 334, the password follows the user answered 334, the success
\* line and MAIL FROM follow the password answered 235; a step answered with
\* anything else ends the run in the authentication catch with nothing
\* written after it.
C21_AuthChain ==
  /\ \A k \in 1..3 : \A i \in Pos(AuthCmds[k]) :
       /\ Cardinality(Pos(AuthCmds[k])) = 1
       /\ sent[i].lines = <<AuthCmds[k]>>
       /\ k > 1 => /\ i > 1
                   /\ sent[i - 1].cmd = AuthCmds[k - 1]
                   /\ Answered(i - 1)
                   /\ CodeOf(i - 1) = AuthExpected[k - 1]
       /\ (Answered(i) /\ CodeOf(i) # AuthExpected[k]) =>
            (FailedAt("authentication") /\ Len(sent) = i)
  /\ Logged("info", "Authentication successful") =>
       \E i \in Pos("btoa(password)") : Answered(i) /\ CodeOf(i) = C235
  /\ (WasSent("AUTH LOGIN") /\ WasSent("MAIL FROM")) =>
       \A i \in Pos("MAIL FROM") :
         /\ i > 1
         /\ sent[i - 1].cmd = "btoa(password)"
         /\ CodeOf(i - 1) = C235

C21_Witness ==
  /\ WasSent("btoa(password)") /\ WasSent("MAIL FROM")
  /\ Logged("info", "Authentication successful")
  /\ pc = "done"

\* The run failed on the reply to the i-th command, with nothing written after.
FailedOn(i, block) == FailedAt(block) /\ Len(sent) = i

\* C22: a reply to MAIL FROM other than 250, 251 included, fails the run
\* before RCPT TO; a reply to EHLO other than 250 and 502 fails the greeting
\* before HELO; HELO follows only EHLO answered 502; a 502 to any other
\* command, or as the banner, and a 251 to any command but RCPT TO, fail the
\* run at that command.
C22_PerStageCodes ==
  /\ \A i \in Pos("MAIL FROM") :
       (Answered(i) /\ CodeOf(i) # C250) =>
         (FailedOn(i, "initiation") /\ ~WasSent("RCPT TO"))
  /\ \A i \in Pos("EHLO") :
       (Answered(i) /\ CodeOf(i) \notin {C250, C502}) =>
         (FailedOn(i, "greeting") /\ ~WasSent("HELO"))
  /\ \A i \in Pos("HELO") :
       i > 1 /\ sent[i - 1].cmd = "EHLO" /\ CodeOf(i - 1) = C502
  /\ \A i \in 1..Len(sent) :
       (Answered(i) /\ sent[i].cmd # "EHLO" /\ CodeOf(i) = C502) =>
         FailedOn(i, TryBlock(sent[i].cmd))
  /\ \A i \in 1..Len(sent) :
       (Answered(i) /\ sent[i].cmd # "RCPT TO" /\ CodeOf(i) = C251) =>
         FailedOn(i, TryBlock(sent[i].cmd))
  /\ (rcvd # <<>> /\ rcvd[1].code \in {C502, C251}) => FailedOn(0, "banner")

C22_Witness ==
  /\ \E i \in Pos("MAIL FROM") : Answered(i) /\ CodeOf(i) = C251
  /\ FailedAt("initiation") /\ ~WasSent("RCPT TO")

IsNotDebug(ev) == ev.kind # "debug"

\* Both runs have read the command line and have settled with everything
\* the server did so far.
InStep ==
  /\ twin.mode \in {"lead", "follow"}
  /\ script = <<>>
  /\ pc # "args"
  /\ twin.pc # "args"

\* C23: of two runs of one command line that differ in -v only and meet the
\* same replies and the same faults, the one never waits where the other did
\* not, and after every reply and every fault both have written the same
\* lines, read the same replies, stand at the same await or have ended the
\* same way with the same release of the socket, and have printed the same
\* lines apart from the trace.
C23_VerboseNonInterference ==
  /\ (twin.mode = "follow" /\ script # <<>>) => ENABLED Next
  /\ InStep =>
       /\ sent = twin.sent
       /\ rcvd = twin.rcvd
       /\ pc = twin.pc
       /\ teardown = twin.teardown
       /\ SelectSeq(log, IsNotDebug) = SelectSeq(twin.log, IsNotDebug)

C23_Witness ==
  /\ InStep /\ verbose /\ pc = "done" /\ twin.pc = "done"
  /\ WasSent("btoa(password)")
  /\ Len(SelectSeq(log, IsDebug)) = Len(sent) + Len(rcvd)
  /\ SelectSeq(twin.log, IsDebug) = <<>>

====
